---- MODULE Spec2Model ----
(***************************************************************************)
(* ThermoBatch Renamer: the staged file queue of App (src/unnamed/part_000) *)
(* and the archive assembly of src/utils/zipUtils.ts.                       *)
(*                                                                          *)
(* JavaScript strings are sequences of one-character strings, so that       *)
(* slice, padStart, endsWith, split and concatenation are computed as the   *)
(* code computes them.  A JavaScript number that may be NaN is a record     *)
(* [nan, v].  An absent optional field holds the value undefined.           *)
(*                                                                          *)
(* One action is one event handler together with the re-render it causes:   *)
(* the preview effect (useEffect, deps [prefix, startIndex, queue.length])  *)
(* runs inside the action exactly when one of its dependencies changed.     *)
(***************************************************************************)
EXTENDS Integers, Sequences, FiniteSets, TLC

VARIABLES queue, prefix, startIndex, filterSuffix, onlyFilter, nextId, hist, lastCommit, last, steps

vars == <<queue, prefix, startIndex, filterSuffix, onlyFilter, nextId, hist, lastCommit, last, steps>>

----------------------------------------------------------------------------
(* Bounds of the model *)

\* ids drawn by processFiles over a whole run
MaxItems == 4
\* handler calls in a run
MaxSteps == 5
\* files handed to one processFiles call
MaxBatch == 2
\* characters of a file name handed to getExtension
MaxNameLen == 4

----------------------------------------------------------------------------
(* JavaScript values *)

undefined == <<"undefined">>

NaN == [nan |-> TRUE, v |-> 0]

Num(n) == [nan |-> FALSE, v |-> n]

\* prev + n on numbers: NaN is absorbing
NumAdd(a, n) == IF a.nan THEN NaN ELSE Num(a.v + n)

Digit(d) == <<"0", "1", "2", "3", "4", "5", "6", "7", "8", "9">>[d + 1]

RECURSIVE NatToString(_)
NatToString(n) == IF n < 10 THEN <<Digit(n)>> ELSE NatToString(n \div 10) \o <<Digit(n % 10)>>

\* Number.prototype.toString()
NumToString(a) ==
  IF a.nan THEN <<"N", "a", "N">>
  ELSE IF a.v < 0 THEN <<"-">> \o NatToString(-a.v)
  ELSE NatToString(a.v)

PadWidth == 3

RECURSIVE Repeat(_, _)
Repeat(c, n) == IF n <= 0 THEN <<>> ELSE <<c>> \o Repeat(c, n - 1)

\* String.prototype.padStart(PadWidth, '0'): pads, never truncates
padStart(s) == IF Len(s) >= PadWidth THEN s ELSE Repeat("0", PadWidth - Len(s)) \o s

\* String.prototype.lastIndexOf("."), 0-based, -1 when absent
lastIndexOfDot(s) ==
  LET hits == {i \in 1..Len(s) : s[i] = "."}
  IN IF hits = {} THEN -1 ELSE (CHOOSE i \in hits : \A j \in hits : j <= i) - 1

\* TLC's integers are 32-bit signed, so an unsigned 32-bit value is kept as two
\* 16-bit limbs: [hi, lo] stands for hi * 2^16 + lo.
Limb == 65536

\* x >>> 0 for -2^31 <= x < 2^31: a negative x wraps to x + 2^32
ToUint32(x) ==
  IF x >= 0 THEN [hi |-> x \div Limb, lo |-> x % Limb]
  ELSE LET y == (x + 2147483647) + 1
       IN [hi |-> (Limb \div 2) + (y \div Limb), lo |-> y % Limb]

\* u + n for a small n >= 0; the sum is a double, it does not wrap again
WideAdd(u, n) == [hi |-> u.hi + ((u.lo + n) \div Limb), lo |-> (u.lo + n) % Limb]

\* String.prototype.slice(start), start >= 0: empty when start is past the end
slice(s, start) ==
  IF start.hi >= Limb \div 2 THEN <<>>
  ELSE SubSeq(s, (start.hi * Limb + start.lo) + 1, Len(s))

\* getExtension without >>> 0: filename.slice(filename.lastIndexOf(".") - 1 + 2)
getExtensionNoWrap(filename) ==
  SubSeq(filename, lastIndexOfDot(filename) + 2, Len(filename))

getExtension(filename) ==
  slice(filename, WideAdd(ToUint32(lastIndexOfDot(filename) - 1), 2))

endsWith(s, suffix) ==
  /\ Len(suffix) <= Len(s)
  /\ SubSeq(s, Len(s) - Len(suffix) + 1, Len(s)) = suffix

UpperCase == <<"A", "B", "C", "D", "E", "F", "G", "H", "I", "J", "K", "L", "M",
               "N", "O", "P", "Q", "R", "S", "T", "U", "V", "W", "X", "Y", "Z">>

LowerCase == <<"a", "b", "c", "d", "e", "f", "g", "h", "i", "j", "k", "l", "m",
               "n", "o", "p", "q", "r", "s", "t", "u", "v", "w", "x", "y", "z">>

toLowerChar(c) ==
  IF \E i \in 1..26 : UpperCase[i] = c
  THEN LowerCase[CHOOSE i \in 1..26 : UpperCase[i] = c]
  ELSE c

toLowerCase(s) == [i \in 1..Len(s) |-> toLowerChar(s[i])]

\* String.prototype.split('/')
RECURSIVE split(_)
split(s) ==
  LET hits == {i \in 1..Len(s) : s[i] = "/"}
  IN IF hits = {} THEN <<s>>
     ELSE LET i == CHOOSE k \in hits : \A j \in hits : k <= j
          IN <<SubSeq(s, 1, i - 1)>> \o split(SubSeq(s, i + 1, Len(s)))

\* parseInt(text) of the text of an <input type="number">: an optional sign and
\* the leading digits; NaN when there is no leading digit
DigitValue(c) == CHOOSE d \in 0..9 : Digit(d) = c

IsDigit(c) == \E d \in 0..9 : Digit(d) = c

RECURSIVE LeadingDigits(_)
LeadingDigits(s) ==
  IF s # <<>> /\ IsDigit(Head(s)) THEN <<Head(s)>> \o LeadingDigits(Tail(s)) ELSE <<>>

RECURSIVE DigitsValue(_)
DigitsValue(ds) ==
  IF ds = <<>> THEN 0 ELSE DigitsValue(SubSeq(ds, 1, Len(ds) - 1)) * 10 + DigitValue(ds[Len(ds)])

parseInt(text) ==
  LET neg  == text # <<>> /\ Head(text) = "-"
      body == IF neg THEN Tail(text) ELSE text
      ds   == LeadingDigits(body)
  IN IF ds = <<>> THEN NaN
     ELSE Num(IF neg THEN -DigitsValue(ds) ELSE DigitsValue(ds))

----------------------------------------------------------------------------
(* Inputs *)

\* the File objects on offer, in the order the picker lists them:
\* name, MIME type tag, webkitRelativePath
Listing ==
  << [name |-> <<"e", ".", "j", "p", "g">>, type |-> "image/jpeg",
      webkitRelativePath |-> <<"s", "-", "1", "/", "e", ".", "j", "p", "g">>],
     [name |-> <<"a", ".", "j", "p", "g">>, type |-> "image/jpeg",
      webkitRelativePath |-> <<"s", "-", "1", "/", "a", ".", "j", "p", "g">>],
     [name |-> <<"d">>, type |-> "image/webp",
      webkitRelativePath |-> <<"t", "-", "1", "/", "d">>],
     [name |-> <<"b", ".", "P", "N", "G">>, type |-> "",
      webkitRelativePath |-> <<"x", "/", "s", "-", "2", "/", "b", ".", "P", "N", "G">>],
     [name |-> <<"c", ".", "t", "x", "t">>, type |-> "text/plain",
      webkitRelativePath |-> <<"s", "-", "1", "/", "c", ".", "t", "x", "t">>] >>

\* min(a, b)
Min(a, b) == IF a < b THEN a ELSE b

\* a FileList: a run of between 1 and MaxBatch consecutive files of the listing
FileLists ==
  {SubSeq(Listing, from, Min(from + n - 1, Len(Listing))) :
     from \in 1..Len(Listing), n \in 1..MaxBatch}

\* texts typed into the Prefix field
PrefixInputs == {<<"A">>}

\* texts typed into the Start # field
StartInputs == {<<>>, <<"1">>, <<"9", "9", "9">>}

\* texts typed into the folder suffix field
SuffixInputs == {<<"-", "2">>}

\* texts typed into a temperature field
TemperatureInputs == {<<>>, <<"2", "3", ".", "5">>}

\* an id that processFiles never hands out
UnknownId == MaxItems + 1

----------------------------------------------------------------------------
(* Queue items and the operations on the queue *)

validTypes == {"image/jpeg", "image/png", "image/jpg", "image/webp"}

imageExtensions == {<<"j", "p", "g">>, <<"j", "p", "e", "g">>, <<"p", "n", "g">>, <<"w", "e", "b", "p">>}

isImageFile(file) ==
  \/ file.type \in validTypes
  \/ \E e \in imageExtensions : endsWith(toLowerCase(file.name), <<".">> \o e)

folderNameOf(file) ==
  LET pathParts == split(file.webkitRelativePath)
  IN IF Len(pathParts) > 1 THEN pathParts[Len(pathParts) - 1] ELSE <<"R", "o", "o", "t">>

\* the k-th image file of a batch becomes an item; ids are fresh
newItem(file, id) ==
  [id |-> id, file |-> file, originalName |-> file.name, folderName |-> folderNameOf(file),
   stage |-> 1, status |-> "idle", temperature |-> undefined,
   newName |-> undefined, previewName |-> undefined]

\* processFiles that applies the folder filter whether or not it is enabled
filteredFilesAlways(files, firstId, only, suffix) ==
  LET imageFiles == SelectSeq(files, isImageFile)
      newItems   == [k \in 1..Len(imageFiles) |-> newItem(imageFiles[k], firstId + k - 1)]
      keep(f)    == endsWith(f.folderName, suffix)
  IN SelectSeq(newItems, keep)

\* the items processFiles appends for a batch of files
filteredFiles(files, firstId, only, suffix) ==
  LET imageFiles == SelectSeq(files, isImageFile)
      newItems   == [k \in 1..Len(imageFiles) |-> newItem(imageFiles[k], firstId + k - 1)]
      keep(f)    == endsWith(f.folderName, suffix)
  IN IF only THEN SelectSeq(newItems, keep) ELSE newItems

\* processFiles that puts the new items in front: [...filteredFiles, ...prev]
processFilesQueuePrepend(prev, files, firstId, only, suffix) ==
  IF Len(SelectSeq(files, isImageFile)) = 0 /\ Len(files) > 0 THEN prev
  ELSE filteredFiles(files, firstId, only, suffix) \o prev

processFilesQueue(prev, files, firstId, only, suffix) ==
  IF Len(SelectSeq(files, isImageFile)) = 0 /\ Len(files) > 0 THEN prev
  ELSE prev \o filteredFiles(files, firstId, only, suffix)

\* number of stage 1 items among the first n items
stage1Before(q, n) == Cardinality({i \in 1..n : q[i].stage = 1})

\* previewEffect without currentSequence++: every preview gets the start number
previewEffectNoIncrement(prevQueue, pfx, start) ==
  [i \in 1..Len(prevQueue) |->
     LET item == prevQueue[i]
     IN IF item.stage = 1
        THEN [item EXCEPT !.previewName = pfx \o padStart(NumToString(start)) \o <<".">>
                                            \o getExtension(item.originalName)]
        ELSE item]

\* previewEffect that keeps the names of committed items in step with the settings
previewEffectRenamesCommitted(prevQueue, pfx, start) ==
  [i \in 1..Len(prevQueue) |->
     LET item == prevQueue[i]
         name == pfx \o padStart(NumToString(NumAdd(start, i - 1))) \o <<".">>
                   \o getExtension(item.originalName)
     IN IF item.stage = 1 THEN [item EXCEPT !.previewName = name]
        ELSE [item EXCEPT !.newName = name]]

\* previewEffect with currentSequence++ outside the stage test: items of every
\* stage use up a number
previewEffectCountsAll(prevQueue, pfx, start) ==
  [i \in 1..Len(prevQueue) |->
     LET item == prevQueue[i]
     IN IF item.stage = 1
        THEN [item EXCEPT !.previewName = pfx \o padStart(NumToString(NumAdd(start, i - 1)))
                                            \o <<".">> \o getExtension(item.originalName)]
        ELSE item]

\* the effect body: the updater passed to setQueue
previewEffect(prevQueue, pfx, start) ==
  [i \in 1..Len(prevQueue) |->
     LET item == prevQueue[i]
     IN IF item.stage = 1
        THEN LET ext             == getExtension(item.originalName)
                 currentSequence == NumAdd(start, stage1Before(prevQueue, i - 1))
                 sequenceStr     == padStart(NumToString(currentSequence))
             IN [item EXCEPT !.previewName = pfx \o sequenceStr \o <<".">> \o ext]
        ELSE item]

\* moveToStage2 that moves the items without locking the name
moveToStage2QueueNoLock(prev) ==
  [i \in 1..Len(prev) |->
     IF prev[i].stage = 1 THEN [prev[i] EXCEPT !.stage = 2, !.status = "idle"] ELSE prev[i]]

\* moveToStage2 without status: 'idle': a committed item keeps its status
moveToStage2QueueKeepStatus(prev) ==
  [i \in 1..Len(prev) |->
     IF prev[i].stage = 1
     THEN [prev[i] EXCEPT !.stage = 2, !.newName = prev[i].previewName]
     ELSE prev[i]]

moveToStage2Queue(prev) ==
  [i \in 1..Len(prev) |->
     IF prev[i].stage = 1
     THEN [prev[i] EXCEPT !.stage = 2, !.newName = prev[i].previewName, !.status = "idle"]
     ELSE prev[i]]

\* moveToStage3 without the stage test: every item goes to stage 3
moveToStage3QueueAll(prev) == [i \in 1..Len(prev) |-> [prev[i] EXCEPT !.stage = 3]]

\* moveToStage3 that moves the annotated items only
moveToStage3QueueAnnotatedOnly(prev) ==
  [i \in 1..Len(prev) |->
     IF prev[i].stage = 2 /\ prev[i].temperature # <<"undefined">> /\ prev[i].temperature # <<>>
     THEN [prev[i] EXCEPT !.stage = 3]
     ELSE prev[i]]

moveToStage3Queue(prev) ==
  [i \in 1..Len(prev) |-> IF prev[i].stage = 2 THEN [prev[i] EXCEPT !.stage = 3] ELSE prev[i]]

\* !value: undefined and the empty string are falsy
Falsy(value) == value = undefined \/ value = <<>>

updateTemperatureQueue(prev, id, value) ==
  [i \in 1..Len(prev) |->
     IF prev[i].id = id
     THEN [prev[i] EXCEPT !.temperature = value,
                          !.status = IF Falsy(value) THEN "idle" ELSE "success"]
     ELSE prev[i]]

\* removeItem by splice(findIndex, 1): an unknown id gives -1 and drops the last item
removeItemQueueSplice(prev, id) ==
  IF \E i \in 1..Len(prev) : prev[i].id = id
  THEN LET keep(item) == item.id # id IN SelectSeq(prev, keep)
  ELSE SubSeq(prev, 1, Len(prev) - 1)

removeItemQueue(prev, id) ==
  LET keep(item) == item.id # id
  IN SelectSeq(prev, keep)

----------------------------------------------------------------------------
(* Archive assembly, src/utils/zipUtils.ts *)

csvHeader ==
  <<"O", "r", "i", "g", "i", "n", "a", "l", " ", "N", "a", "m", "e", ",", "N", "e", "w", " ", "N", "a", "m", "e", ",", "F", "o", "l", "d", "e", "r", ",", "T", "e", "m", "p", "e", "r", "a", "t", "u", "r", "e", "\n">>

NA == <<"N", "/", "A">>

summaryName == <<"d", "a", "t", "a", "_", "s", "u", "m", "m", "a", "r", "y", ".", "c", "s", "v">>

quoted(field) == <<"\"">> \o field \o <<"\"">>

\* csvLine with item.temperature ?? "N/A": an empty annotation is written as it is
csvLineNullish(item) ==
  LET safeTemp == IF item.temperature = undefined THEN NA ELSE item.temperature
  IN quoted(item.originalName) \o <<",">> \o quoted(item.newName) \o <<",">>
     \o quoted(item.folderName) \o <<",">> \o quoted(safeTemp) \o <<"\n">>

\* one manifest line: `"${originalName}","${newName}","${folderName}","${safeTemp}"\n`
csvLine(item) ==
  LET safeTemp == IF Falsy(item.temperature) THEN NA ELSE item.temperature
  IN quoted(item.originalName) \o <<",">> \o quoted(item.newName) \o <<",">>
     \o quoted(item.folderName) \o <<",">> \o quoted(safeTemp) \o <<"\n">>

\* JSZip.file(name, data): a second entry of the same name replaces the first
zipFile(zip, name, data) ==
  IF \E i \in 1..Len(zip) : zip[i].name = name
  THEN [i \in 1..Len(zip) |-> IF zip[i].name = name THEN [name |-> name, data |-> data] ELSE zip[i]]
  ELSE Append(zip, [name |-> name, data |-> data])

\* the forEach of generateZipPackage over the first n items: [zip, csvContent]
RECURSIVE packItems(_, _)
packItems(processedFiles, n) ==
  IF n = 0 THEN [zip |-> <<>>, csvContent |-> csvHeader]
  ELSE LET acc  == packItems(processedFiles, n - 1)
           item == processedFiles[n]
       IN IF item.newName # undefined /\ item.newName # <<>>
          THEN [zip |-> zipFile(acc.zip, item.newName, [file |-> item.file]),
                csvContent |-> acc.csvContent \o csvLine(item)]
          ELSE acc

\* the package: the entries of the zip and the text of data_summary.csv
generateZipPackage(processedFiles) ==
  LET acc == packItems(processedFiles, Len(processedFiles))
  IN [zip |-> zipFile(acc.zip, summaryName, [text |-> acc.csvContent]),
      csvContent |-> acc.csvContent]

\* how a call of downloadBlob goes: every DOM call returns, or one of
\* appendChild, click, removeChild throws
DownloadOutcomes == {"none", "appendChild", "click", "removeChild"}

NotCalled == [called |-> FALSE, created |-> FALSE, attached |-> FALSE, clicked |-> FALSE,
              detached |-> FALSE, revoked |-> FALSE, threw |-> FALSE]

\* downloadBlob: the statements run in order and a throw skips the rest
downloadBlob(failsAt) ==
  [called   |-> TRUE,
   created  |-> TRUE,
   attached |-> failsAt # "appendChild",
   clicked  |-> failsAt \notin {"appendChild", "click"},
   detached |-> failsAt = "none",
   revoked  |-> failsAt = "none",
   threw    |-> failsAt # "none"]

\* the try block without await: downloadBlob is called whether or not the
\* package was made
tryDownloadNoAwait(resolved, failsAt) ==
  LET download == downloadBlob(failsAt)
  IN [download |-> download, alerts |-> IF ~resolved \/ download.threw THEN 1 ELSE 0]

\* try { blob = await generateZipPackage(...); downloadBlob(blob, ...) }
\* catch (e) { console.error(e); alert("Failed to create zip") }
tryDownload(resolved, failsAt) ==
  IF resolved
  THEN LET download == downloadBlob(failsAt)
       IN [download |-> download, alerts |-> IF download.threw THEN 1 ELSE 0]
  ELSE [download |-> NotCalled, alerts |-> 1]

----------------------------------------------------------------------------
(* The application state and its handlers *)

NoCommit == [n |-> 0, cursor |-> Num(0), count |-> 0, edited |-> FALSE]

Init ==
  /\ queue = <<>>
  /\ prefix = <<"0", "1", "-">>
  /\ startIndex = Num(1)
  /\ filterSuffix = <<"-", "1">>
  /\ onlyFilter = TRUE
  /\ nextId = 1
  /\ hist = {}
  /\ lastCommit = NoCommit
  /\ last = [op |-> "mount"]
  /\ steps = 0

\* render with the effect's dependencies [prefix, startIndex]: a change of
\* queue.length alone does not run it
renderNoLength(q, pfx, start) ==
  IF pfx # prefix \/ start # startIndex
  THEN previewEffect(q, pfx, start)
  ELSE q

\* The render after a handler: the effect runs when prefix, startIndex or
\* queue.length differs from the previous render, and rewrites the previews.
render(q, pfx, start) ==
  IF pfx # prefix \/ start # startIndex \/ Len(q) # Len(queue)
  THEN previewEffect(q, pfx, start)
  ELSE q

\* the ids a handler is called with: those of the items shown, and an unknown one
Ids == {queue[i].id : i \in 1..Len(queue)} \cup {UnknownId}

stage1Count == stage1Before(queue, Len(queue))

\* one more handler call of the run
Tick == steps < MaxSteps /\ steps' = steps + 1

\* handleFileSelect / handleDrop: a non-empty list of files reaches processFiles
processFiles ==
  \E files \in FileLists :
    LET drawn == Len(SelectSeq(files, isImageFile))
    IN /\ Tick
       /\ nextId + drawn - 1 <= MaxItems
       /\ queue' = render(processFilesQueue(queue, files, nextId, onlyFilter, filterSuffix),
                          prefix, startIndex)
       /\ nextId' = nextId + drawn
       /\ last' = [op |-> "processFiles", files |-> files]
       /\ UNCHANGED <<prefix, startIndex, filterSuffix, onlyFilter, hist, lastCommit>>

\* onChange fires when the text of the field changes
setPrefix ==
  \E p \in PrefixInputs :
    /\ Tick
    /\ p # prefix
    /\ prefix' = p
    /\ queue' = render(queue, p, startIndex)
    /\ lastCommit' = [lastCommit EXCEPT !.edited = TRUE]
    /\ last' = [op |-> "setPrefix"]
    /\ UNCHANGED <<startIndex, filterSuffix, onlyFilter, nextId, hist>>

\* what the Start # field shows: value={startIndex}, empty for NaN
shownStart == IF startIndex.nan THEN <<>> ELSE NumToString(startIndex)

\* the Start # field: onChange fires when the text changes,
\* setStartIndex(parseInt(e.target.value))
setStartIndex ==
  \E text \in StartInputs :
    /\ Tick
    /\ text # shownStart
    /\ startIndex' = parseInt(text)
    /\ queue' = render(queue, prefix, parseInt(text))
    /\ lastCommit' = [lastCommit EXCEPT !.edited = TRUE]
    /\ last' = [op |-> "setStartIndex"]
    /\ UNCHANGED <<prefix, filterSuffix, onlyFilter, nextId, hist>>

setFilterSuffix ==
  \E suffix \in SuffixInputs :
    /\ Tick
    /\ onlyFilter
    /\ suffix # filterSuffix
    /\ filterSuffix' = suffix
    /\ lastCommit' = [lastCommit EXCEPT !.edited = TRUE]
    /\ last' = [op |-> "setFilterSuffix"]
    /\ UNCHANGED <<queue, prefix, startIndex, onlyFilter, nextId, hist>>

setOnlyFilter ==
  \E checked \in {~onlyFilter} :
    /\ Tick
    /\ onlyFilter' = checked
    /\ lastCommit' = [lastCommit EXCEPT !.edited = TRUE]
    /\ last' = [op |-> "setOnlyFilter"]
    /\ UNCHANGED <<queue, prefix, startIndex, filterSuffix, nextId, hist>>

\* the items a commit moves, as the history remembers them: the batch, the
\* prefix and cursor of the commit, the item's position among the stage 1 items,
\* the name it received, and whether the commit follows the previous one with no
\* configuration edit in between (expected: the previous cursor plus its count)
committedNow ==
  { [id |-> queue[i].id, batch |-> lastCommit.n + 1, prefix |-> prefix,
     cursor |-> startIndex, k |-> stage1Before(queue, i - 1),
     name |-> moveToStage2Queue(queue)[i].newName,
     follows |-> lastCommit.n > 0 /\ ~lastCommit.edited,
     expected |-> NumAdd(lastCommit.cursor, lastCommit.count)] :
    i \in {j \in 1..Len(queue) : queue[j].stage = 1} }

moveToStage2 ==
  \E confirmed \in BOOLEAN :
    /\ Tick
    /\ stage1Count > 0
    /\ last' = [op |-> "moveToStage2", confirmed |-> confirmed]
    /\ IF confirmed
       THEN /\ startIndex' = NumAdd(startIndex, stage1Count)
            /\ queue' = render(moveToStage2Queue(queue), prefix, NumAdd(startIndex, stage1Count))
            /\ hist' = hist \cup committedNow
            /\ lastCommit' = [n |-> lastCommit.n + 1, cursor |-> startIndex,
                              count |-> stage1Count, edited |-> FALSE]
            /\ UNCHANGED <<prefix, filterSuffix, onlyFilter, nextId>>
       ELSE UNCHANGED <<queue, prefix, startIndex, filterSuffix, onlyFilter, nextId, hist, lastCommit>>

incomplete == \E i \in 1..Len(queue) : queue[i].stage = 2 /\ Falsy(queue[i].temperature)

\* the dialog is shown, and answered, only when an annotation is missing
moveToStage3 ==
  \E confirmed \in IF incomplete THEN BOOLEAN ELSE {TRUE} :
    /\ Tick
    /\ \E i \in 1..Len(queue) : queue[i].stage = 2
    /\ last' = [op |-> "moveToStage3", asked |-> incomplete, confirmed |-> confirmed]
    /\ IF incomplete /\ ~confirmed
       THEN UNCHANGED queue
       ELSE queue' = render(moveToStage3Queue(queue), prefix, startIndex)
    /\ UNCHANGED <<prefix, startIndex, filterSuffix, onlyFilter, nextId, hist, lastCommit>>

\* what the temperature field of an item shows: value={item.temperature || ''}
shownTemperature(item) == IF Falsy(item.temperature) THEN <<>> ELSE item.temperature

\* onChange of a temperature field fires when its text changes; a call with an id
\* that matches no item carries a text
updateTemperature ==
  \E id \in Ids, value \in TemperatureInputs :
    /\ Tick
    /\ id = UnknownId => value # <<>>
    /\ \A i \in 1..Len(queue) : queue[i].id = id => value # shownTemperature(queue[i])
    /\ queue' = render(updateTemperatureQueue(queue, id, value), prefix, startIndex)
    /\ last' = [op |-> "updateTemperature", id |-> id, value |-> value]
    /\ UNCHANGED <<prefix, startIndex, filterSuffix, onlyFilter, nextId, hist, lastCommit>>

removeItem ==
  \E id \in Ids :
    /\ Tick
    /\ queue' = render(removeItemQueue(queue, id), prefix, startIndex)
    /\ hist' = {h \in hist : h.id # id}
    /\ last' = [op |-> "removeItem", id |-> id]
    /\ UNCHANGED <<prefix, startIndex, filterSuffix, onlyFilter, nextId, lastCommit>>

stage3Items ==
  LET isStage3(item) == item.stage = 3
  IN SelectSeq(queue, isStage3)

\* generateAsync resolves or rejects; on success the package goes to downloadBlob
handleDownload ==
  \E resolved \in BOOLEAN, failsAt \in DownloadOutcomes :
    /\ Tick
    /\ stage3Items # <<>>
    /\ ~resolved => failsAt = "none"
    /\ last' = [op |-> "handleDownload", items |-> stage3Items, resolved |-> resolved,
                package |-> generateZipPackage(stage3Items),
                download |-> tryDownload(resolved, failsAt).download,
                alerts |-> tryDownload(resolved, failsAt).alerts]
    /\ UNCHANGED <<queue, prefix, startIndex, filterSuffix, onlyFilter, nextId, hist, lastCommit>>

Next ==
  \/ processFiles
  \/ setPrefix
  \/ setStartIndex
  \/ setFilterSuffix
  \/ setOnlyFilter
  \/ moveToStage2
  \/ moveToStage3
  \/ updateTemperature
  \/ removeItem
  \/ handleDownload

Spec == Init /\ [][Next]_vars

----------------------------------------------------------------------------
(* getExtension on its own: a file name is drawn, then the function is called *)

\* the characters of the names: a letter, the dot, and a second letter
NameAlphabet == {"a", ".", "g"}

\* every name of at most MaxNameLen characters
FileNames == UNION {[1..n -> NameAlphabet] : n \in 0..MaxNameLen}

ExtensionInit ==
  /\ queue = <<>>
  /\ prefix = <<"0", "1", "-">>
  /\ startIndex = Num(1)
  /\ filterSuffix = <<"-", "1">>
  /\ onlyFilter = TRUE
  /\ nextId = 1
  /\ hist = {}
  /\ lastCommit = NoCommit
  /\ steps = 0
  /\ \E filename \in FileNames : last = [op |-> "name", filename |-> filename]

callGetExtension ==
  /\ last.op = "name"
  /\ last' = [op |-> "getExtension", filename |-> last.filename,
              ext |-> getExtension(last.filename)]
  /\ UNCHANGED <<queue, prefix, startIndex, filterSuffix, onlyFilter, nextId, hist,
                 lastCommit, steps>>

ExtensionNext == callGetExtension

ExtensionSpec == ExtensionInit /\ [][ExtensionNext]_vars

----------------------------------------------------------------------------
(* Vocabulary of the properties *)

QueueIds == {queue[i].id : i \in 1..Len(queue)}

\* position of the item with this id
IndexOf(q, id) == CHOOSE i \in 1..Len(q) : q[i].id = id

Defined(x) == x # undefined

\* the decimal sequence number, left-padded with zeros to three digits
ZeroPadded(n) ==
  IF n < 1000 THEN <<Digit(n \div 100), Digit((n \div 10) % 10), Digit(n % 10)>>
  ELSE NatToString(n)

\* the text between the prefix and the "." that precedes the extension
SequenceField(name, pfx) == SubSeq(name, Len(pfx) + 1, lastIndexOfDot(name))

----------------------------------------------------------------------------
(* C1: sequence continuity.  An item committed at position k of a batch, under
   prefix p and cursor s >= 0, is named p + zero-padded(s + k) + "." + its
   extension; the commit leaves nextSequence at s + n; and a commit that follows
   the previous one with no configuration edit starts where that one ended. *)
SequenceContinuity ==
  /\ \A h \in hist :
       (~h.cursor.nan /\ h.cursor.v >= 0) =>
         LET item == queue[IndexOf(queue, h.id)]
         IN /\ item.newName = h.prefix \o ZeroPadded(h.cursor.v + h.k) \o <<".">>
                                \o getExtension(item.originalName)
            /\ h.follows => h.cursor = h.expected
  /\ (lastCommit.n > 0 /\ ~lastCommit.edited /\ ~lastCommit.cursor.nan /\ lastCommit.cursor.v >= 0)
       => startIndex = Num(lastCommit.cursor.v + lastCommit.count)

\* two items of one batch, then two of the next batch, committed with no edit between
SequenceContinuityWitness ==
  /\ last.op = "moveToStage2" /\ last.confirmed
  /\ \E h1, h2, h3, h4 \in hist :
       /\ h1.batch = 1 /\ h2.batch = 1 /\ h1.k = 0 /\ h2.k = 1
       /\ h3.batch = 2 /\ h4.batch = 2 /\ h3.k = 0 /\ h4.k = 1
       /\ h3.follows /\ h3.cursor = Num(h1.cursor.v + 2)
       /\ queue[IndexOf(queue, h4.id)].newName = <<"0", "1", "-", "0", "0", "4", ".">>

(* C2: freeze.  An item at stage 2 or 3 carries the assigned name it received at
   its commit, whatever happened since. *)
Freeze ==
  \A h \in hist :
    LET item == queue[IndexOf(queue, h.id)]
    IN item.stage >= 2 /\ item.newName = h.name

\* a committed item that has since seen a prefix edit and a start edit
FreezeWitness ==
  /\ \E h \in hist : h.prefix # prefix /\ h.cursor = Num(1)
  /\ startIndex = Num(999)
  /\ \E i \in 1..Len(queue) : queue[i].stage = 1

BatchesDoNotOverlap ==
  \A h1, h2 \in hist :
    h1.batch # h2.batch =>
      SequenceField(h1.name, h1.prefix) # SequenceField(h2.name, h2.prefix)

(* C5: the preview recomputation is a pure, idempotent function of the prefix,
   the cursor and the ordered stage 1 items: under any prefix and cursor, a
   second run changes nothing, a run writes nothing but previewName of stage 1
   items, and the previews it writes are those it writes for the stage 1 items
   alone. *)
StartValues == {parseInt(text) : text \in StartInputs} \cup {startIndex}

IsStage1(item) == item.stage = 1

PreviewRecomputationPure ==
  \A pfx \in PrefixInputs \cup {prefix}, start \in StartValues :
    LET once  == previewEffect(queue, pfx, start)
        twice == previewEffect(once, pfx, start)
    IN /\ twice = once
       /\ Len(once) = Len(queue)
       /\ \A i \in 1..Len(queue) :
            IF queue[i].stage = 1
            THEN once[i] = [queue[i] EXCEPT !.previewName = once[i].previewName]
            ELSE once[i] = queue[i]
       /\ SelectSeq(once, IsStage1) = previewEffect(SelectSeq(queue, IsStage1), pfx, start)

\* a prefix edit has just rewritten the previews of two stage 1 items that stand
\* behind committed ones
PreviewRecomputationWitness ==
  /\ last.op = "setPrefix"
  /\ Len(queue) = 4
  /\ queue[1].stage = 2 /\ queue[2].stage = 2 /\ queue[3].stage = 1 /\ queue[4].stage = 1
  /\ queue[3].previewName = <<"A", "0", "0", "3", ".", "j", "p", "g">>
  /\ queue[1].newName = <<"0", "1", "-", "0", "0", "1", ".", "j", "p", "g">>

(* C6: filter correctness.  processFiles appends, in input order and at stage 1,
   exactly the files of an accepted image type whose group label ends with the
   suffix when the folder filter is on; with the filter off the label plays no
   part. *)
ExtensionAfterLastDot(name) ==
  IF lastIndexOfDot(name) < 0 THEN <<"no extension">>
  ELSE SubSeq(name, lastIndexOfDot(name) + 2, Len(name))

AcceptedType(file) ==
  \/ file.type \in {"image/jpeg", "image/jpg", "image/png", "image/webp"}
  \/ toLowerCase(ExtensionAfterLastDot(file.name)) \in imageExtensions

\* the containing directory of the file, "Root" when it has none
GroupLabel(file) ==
  LET path    == file.webkitRelativePath
      slashes == {i \in 1..Len(path) : path[i] = "/"}
  IN IF slashes = {} THEN <<"R", "o", "o", "t">>
     ELSE LET end   == CHOOSE i \in slashes : \A j \in slashes : j <= i
              start == IF \E j \in slashes : j < end
                       THEN (CHOOSE i \in slashes : i < end /\ \A j \in slashes : j < end => j <= i) + 1
                       ELSE 1
          IN SubSeq(path, start, end - 1)

FilterCorrectness ==
  [][last'.op = "processFiles" =>
       LET Accepted(file) == AcceptedType(file)
                             /\ (onlyFilter => endsWith(GroupLabel(file), filterSuffix))
           accepted == SelectSeq(last'.files, Accepted)
       IN /\ Len(queue') = Len(queue) + Len(accepted)
          /\ \A k \in 1..Len(accepted) :
               LET item == queue'[Len(queue) + k]
               IN /\ item.file = accepted[k]
                  /\ item.originalName = accepted[k].name
                  /\ item.folderName = GroupLabel(accepted[k])
                  /\ item.stage = 1
          /\ \A i \in 1..Len(queue) : queue'[i].id = queue[i].id]_vars

\* with the filter on, of two images handed in only the one whose folder ends
\* with the suffix was taken in
FilterWitness ==
  /\ last.op = "processFiles"
  /\ onlyFilter
  /\ Len(last.files) = 2
  /\ \A k \in 1..2 : AcceptedType(last.files[k])
  /\ ~endsWith(GroupLabel(last.files[2]), filterSuffix)
  /\ Len(queue) = 1
  /\ queue[1].file = last.files[1]

(* C7: remove and setAnnotation with an id that matches no item leave the queue,
   the prefix and the cursor as they were. *)
UnknownIdNoOp ==
  [][(last'.op \in {"removeItem", "updateTemperature"} /\ last'.id \notin QueueIds) =>
       /\ queue' = queue
       /\ prefix' = prefix
       /\ startIndex' = startIndex]_vars

UnknownIdWitness ==
  /\ last.op = "removeItem"
  /\ last.id \notin QueueIds
  /\ Len(queue) = 2
  /\ queue[1].stage = 2 /\ queue[2].stage = 1

(* C8: manifest content.  The manifest is the header row followed by one row per
   item that has an assigned name, in item order; a row holds the original name,
   the assigned name, the group label and the annotation, each quoted, and the
   annotation field reads N/A when the item has none (absent or empty). *)
HasAnnotation(item) == Defined(item.temperature) /\ item.temperature # <<>>

RowFields(item) ==
  <<item.originalName, item.newName, item.folderName,
    IF HasAnnotation(item) THEN item.temperature ELSE <<"N", "/", "A">> >>

RECURSIVE JoinQuoted(_)
JoinQuoted(fields) ==
  IF Len(fields) = 1 THEN <<"\"">> \o fields[1] \o <<"\"">>
  ELSE <<"\"">> \o fields[1] \o <<"\"", ",">> \o JoinQuoted(Tail(fields))

RECURSIVE ManifestRows(_)
ManifestRows(items) ==
  IF items = <<>> THEN <<>>
  ELSE (IF Defined(Head(items).newName)
        THEN JoinQuoted(RowFields(Head(items))) \o <<"\n">> ELSE <<>>)
       \o ManifestRows(Tail(items))

ManifestContent ==
  /\ generateZipPackage(stage3Items).csvContent = csvHeader \o ManifestRows(stage3Items)
  /\ last.op = "handleDownload" =>
       last.package.csvContent = csvHeader \o ManifestRows(last.items)

\* a package was made for two stage 3 items, the first annotated 23.5, the second not
ManifestWitness ==
  /\ last.op = "handleDownload"
  /\ last.resolved
  /\ Len(last.items) = 2
  /\ last.items[1].temperature = <<"2", "3", ".", "5">>
  /\ last.items[2].temperature = undefined
  /\ last.package.csvContent =
       csvHeader \o JoinQuoted(RowFields(last.items[1])) \o <<"\n">>
                 \o JoinQuoted(<<last.items[2].originalName, last.items[2].newName,
                                 last.items[2].folderName, <<"N", "/", "A">> >>) \o <<"\n">>

(* C9: stages are forward-only.  In any step an item that stays in the queue keeps
   its stage or moves up by one, from 1 to 2 in moveToStage2 and from 2 to 3 in
   moveToStage3 only. *)
StagesForwardOnly ==
  [][\A i \in 1..Len(queue), j \in 1..Len(queue') :
       queue[i].id = queue'[j].id =>
         \/ queue'[j].stage = queue[i].stage
         \/ queue[i].stage = 1 /\ queue'[j].stage = 2 /\ last'.op = "moveToStage2"
         \/ queue[i].stage = 2 /\ queue'[j].stage = 3 /\ last'.op = "moveToStage3"]_vars

\* moveToStage3 has just run with items of all three stages in the queue
StagesWitness ==
  /\ last.op = "moveToStage3"
  /\ \E i, j \in 1..Len(queue) : queue[i].stage = 3 /\ queue[j].stage = 1

(* C10: insertion order.  Two items that are in the queue before and after a step
   keep their relative order, and processFiles puts every new item behind all
   the items already there. *)
OrderPreserved ==
  [][/\ \A i1, i2 \in 1..Len(queue), j1, j2 \in 1..Len(queue') :
          (i1 < i2 /\ queue[i1].id = queue'[j1].id /\ queue[i2].id = queue'[j2].id) => j1 < j2
     /\ \A j1, j2 \in 1..Len(queue') :
          (queue'[j1].id \in QueueIds /\ queue'[j2].id \notin QueueIds) => j1 < j2]_vars

\* a batch was appended behind two items left of three after a removal in the middle
OrderWitness ==
  /\ last.op = "processFiles"
  /\ Len(queue) = 3
  /\ queue[1].id = 1 /\ queue[2].id = 3 /\ queue[3].id = 4

(* C11 as stated: the extension is the text after the final "." of the name,
   and empty when the name has no "."; the call always returns a string. *)
AfterFinalDot(name) ==
  IF \A i \in 1..Len(name) : name[i] # "." THEN <<>>
  ELSE LET dot == CHOOSE i \in 1..Len(name) :
                    name[i] = "." /\ \A j \in (i + 1)..Len(name) : name[j] # "."
       IN [k \in 1..(Len(name) - dot) |-> name[dot + k]]

ExtensionIsAfterFinalDot ==
  last.op = "getExtension" =>
    /\ last.ext \in Seq(NameAlphabet)
    /\ last.ext = AfterFinalDot(last.filename)

(* C11 amended: the extension is the text after the final "." when that "." is
   not the first character of the name; it is empty when the name has no "." and
   also when its final "." is its first character (".gitignore" gives ""); the
   call always returns a string. *)
LeadingDotOnly(name) ==
  /\ name # <<>>
  /\ name[1] = "."
  /\ \A i \in 2..Len(name) : name[i] # "."

ExtensionExtraction ==
  last.op = "getExtension" =>
    /\ last.ext \in Seq(NameAlphabet)
    /\ last.ext = IF LeadingDotOnly(last.filename) THEN <<>>
                  ELSE AfterFinalDot(last.filename)

\* the call was made on a name whose only "." leads it, and gave the empty string
ExtensionWitness ==
  /\ last.op = "getExtension"
  /\ last.filename = <<".", "g", "a">>
  /\ last.ext = <<>>

(* C12: previews in sync.  Whenever the cursor is a number >= 0, the k-th stage 1
   item in queue order, k counted from 0 over the stage 1 items only, previews
   as prefix + zero-padded(cursor + k) + "." + its extension; so a removal
   renumbers the stage 1 items behind the removed one with no gap. *)
PreviewsInSync ==
  (~startIndex.nan /\ startIndex.v >= 0) =>
    \A i \in 1..Len(queue) :
      queue[i].stage = 1 =>
        queue[i].previewName =
          prefix \o ZeroPadded(startIndex.v + Cardinality({j \in 1..(i - 1) : queue[j].stage = 1}))
                 \o <<".">> \o getExtension(queue[i].originalName)

\* the first of two stage 1 items was removed and the second took its number
PreviewsInSyncWitness ==
  /\ last.op = "removeItem"
  /\ last.id = 1
  /\ Len(queue) = 1
  /\ queue[1].id = 2 /\ queue[1].stage = 1
  /\ startIndex = Num(1)
  /\ queue[1].previewName = prefix \o <<"0", "0", "1", ".">>

(* C13: the cursor moves at the commit only.  A step that changes startIndex is a
   confirmed moveToStage2; a confirmed moveToStage2 raises startIndex by the
   number of items it moves; and no step lowers startIndex. *)
CursorMovesAtCommitOnly ==
  [][/\ startIndex' # startIndex => (last'.op = "moveToStage2" /\ last'.confirmed)
     /\ (last'.op = "moveToStage2" /\ last'.confirmed /\ ~startIndex.nan) =>
          startIndex' = Num(startIndex.v + stage1Count)
     /\ ~startIndex.nan => (~startIndex'.nan /\ startIndex'.v >= startIndex.v)]_vars

(* C14: the frame of the commit.  A confirmed moveToStage2 keeps the queue's
   length and order; each stage 1 item comes out at stage 2 with newName equal
   to the previewName it had, status idle, and id, file, originalName,
   folderName and temperature as before; every item of stage 2 or 3 comes out
   equal, field for field. *)
CommitFrame ==
  [][(last'.op = "moveToStage2" /\ last'.confirmed) =>
       /\ Len(queue') = Len(queue)
       /\ \A i \in 1..Len(queue) :
            IF queue[i].stage = 1
            THEN /\ queue'[i].stage = 2
                 /\ queue'[i].newName = queue[i].previewName
                 /\ queue'[i].status = "idle"
                 /\ queue'[i].id = queue[i].id
                 /\ queue'[i].file = queue[i].file
                 /\ queue'[i].originalName = queue[i].originalName
                 /\ queue'[i].folderName = queue[i].folderName
                 /\ queue'[i].temperature = queue[i].temperature
            ELSE queue'[i] = queue[i]]_vars

\* a second batch was committed behind an annotated item of the first, and one
\* of its items went in annotated
CommitFrameWitness ==
  /\ last.op = "moveToStage2" /\ last.confirmed
  /\ \E h1, h2 \in hist :
       /\ h1.batch = 1 /\ h2.batch = 2
       /\ queue[IndexOf(queue, h2.id)].temperature = <<"2", "3", ".", "5">>
       /\ queue[IndexOf(queue, h2.id)].status = "idle"
       /\ queue[IndexOf(queue, h1.id)].newName # queue[IndexOf(queue, h2.id)].newName

(* C15: the soft gate of the export commit.  moveToStage3 asks for confirmation
   exactly when some stage 2 item has no annotation; when the confirmation is
   declined the queue stays as it was; otherwise every stage 2 item, annotated or
   not, comes out at stage 3 with its other fields as before, and the items of
   stage 1 and 3 come out equal. *)
ExportGate ==
  [][last'.op = "moveToStage3" =>
       /\ last'.asked <=> (\E i \in 1..Len(queue) : queue[i].stage = 2 /\ ~HasAnnotation(queue[i]))
       /\ IF last'.asked /\ ~last'.confirmed
          THEN queue' = queue
          ELSE /\ Len(queue') = Len(queue)
               /\ \A i \in 1..Len(queue) :
                    IF queue[i].stage = 2
                    THEN queue'[i] = [queue[i] EXCEPT !.stage = 3]
                    ELSE queue'[i] = queue[i]]_vars

\* the confirmation was asked and granted: an annotated and an unannotated item
\* went to stage 3 together
ExportGateWitness ==
  /\ last.op = "moveToStage3"
  /\ last.asked /\ last.confirmed
  /\ \E i, j \in 1..Len(queue) :
       /\ queue[i].stage = 3 /\ queue[i].temperature = <<"2", "3", ".", "5">>
       /\ queue[j].stage = 3 /\ queue[j].temperature = undefined

(* C16: status is derived from the annotation.  In every state every item has
   status success when its annotation is set (a non-empty text) and status idle
   otherwise. *)
StatusDerived ==
  \A i \in 1..Len(queue) :
    queue[i].status = IF HasAnnotation(queue[i]) THEN "success" ELSE "idle"

(* C17: fixed-width sequence field.  Whenever the cursor is a number >= 0, the
   text between the prefix and the "." of every stage 1 preview is exactly
   three decimal digits. *)
SequenceFieldIsThreeDigits ==
  (~startIndex.nan /\ startIndex.v >= 0) =>
    \A i \in 1..Len(queue) :
      queue[i].stage = 1 =>
        LET field == SequenceField(queue[i].previewName, prefix)
        IN /\ Len(field) = 3
           /\ \A k \in 1..Len(field) : IsDigit(field[k])

(* C18: archive entries.  The archive made for a list of stage 3 items holds, for
   each item with an assigned name, exactly one entry whose path is that name
   and whose content is the item's file, and besides these the one entry
   data_summary.csv; so it has as many file entries as the manifest has rows. *)
Eligible(items) == SelectSeq(items, LAMBDA item : Defined(item.newName))

LineCount(text) == Cardinality({i \in 1..Len(text) : text[i] = "\n"})

ArchiveEntries ==
  (last.op = "handleDownload" /\ last.resolved) =>
    LET zip      == last.package.zip
        eligible == Eligible(last.items)
        fileEntries == {j \in 1..Len(zip) : zip[j].name # summaryName}
    IN /\ \A k \in 1..Len(eligible) :
            Cardinality({j \in 1..Len(zip) : zip[j].name = eligible[k].newName}) = 1
       /\ \A k \in 1..Len(eligible) :
            \E j \in 1..Len(zip) : zip[j] = [name |-> eligible[k].newName,
                                              data |-> [file |-> eligible[k].file]]
       /\ Cardinality({j \in 1..Len(zip) : zip[j].name = summaryName}) = 1
       /\ Cardinality(fileEntries) = Len(eligible)
       /\ Cardinality(fileEntries) = LineCount(last.package.csvContent) - 1

(* C19: assembly is a pure read.  handleDownload leaves the queue, the prefix
   and the cursor as they were whether the package is made or not; when it is
   not made, one failure is reported and downloadBlob is not called; and the
   stage 3 items of the state it leaves are the ones it read, so a further call
   reads the same items. *)
AssemblyIsPureRead ==
  [][last'.op = "handleDownload" =>
       /\ queue' = queue
       /\ prefix' = prefix
       /\ startIndex' = startIndex
       /\ last'.items = SelectSeq(queue, LAMBDA item : item.stage = 3)
       /\ last'.items = SelectSeq(queue', LAMBDA item : item.stage = 3)
       /\ ~last'.resolved => (last'.alerts = 1 /\ ~last'.download.called)]_vars

\* the package for two stage 3 items was not made: one alert, no download
AssemblyWitness ==
  /\ last.op = "handleDownload"
  /\ ~last.resolved
  /\ last.alerts = 1
  /\ ~last.download.called
  /\ Len(last.items) = 2
  /\ last.items = stage3Items

(* C20: the object URL is released on every path.  Whenever downloadBlob has
   created the URL, it has revoked it by the time it ends, whether appendChild,
   click and removeChild return or throw. *)
UrlReleased ==
  (last.op = "handleDownload" /\ last.download.created) => last.download.revoked

(* C21: an empty annotation is treated as absent everywhere.  For every item in
   every state, three judgements hold exactly when the item's annotation is a
   non-empty text: its status is success; moveToStage3 does not take it for
   incomplete; and its manifest row shows the annotation rather than N/A. *)
StatusPopulated(item) == item.status = "success"

TakenForComplete(item) == ~Falsy(item.temperature)

RowShowsAnnotation(item) ==
  csvLine(item) = quoted(item.originalName) \o <<",">> \o quoted(item.newName) \o <<",">>
                  \o quoted(item.folderName) \o <<",">> \o quoted(item.temperature) \o <<"\n">>

EmptyAnnotationIsAbsent ==
  \A i \in 1..Len(queue) :
    /\ StatusPopulated(queue[i]) <=> HasAnnotation(queue[i])
    /\ TakenForComplete(queue[i]) <=> HasAnnotation(queue[i])
    /\ RowShowsAnnotation(queue[i]) <=> HasAnnotation(queue[i])

====
